---- MODULE Spec2Model ----
(***************************************************************************)
(* A model of preprocess.py (DocdbToTabular): the batch driver `convert`,  *)
(* the document splitter `yield_xml_doc`, the recursive extractor          *)
(* `process_path`, the key policy `get_pk`, the column resolver            *)
(* `get_fieldnames` and the writer `write_csv_files`.                      *)
(*                                                                         *)
(* Python strings are sequences of one-character strings, so that          *)
(* startswith, split, slicing, join and whitespace normalisation are       *)
(* computed and not assumed.  XML tags and enumeration values are TLA+     *)
(* strings.  A dict is a function whose domain is its key set.             *)
(***************************************************************************)
EXTENDS Integers, Sequences, FiniteSets, TLC

VARIABLES config, xml_files, fidx, lineno, xml_doc, doc, i, tables, pc, exc,
          raised, log, calls, fieldnames, args, ret

\* config      self.config, the ordered mapping path -> rule        (line 128)
\* xml_files   self.xml_files: the files, each the sequence of its
\*             documents (by name)                                  (114-118)
\* fidx        the position of convert's loop over the files         (231)
\* lineno      the lines yield_xml_doc has read of the current file  (152)
\* xml_doc     yield_xml_doc's list of the lines collected           (150-157)
\* doc         convert's loop variable, the text last yielded        (235)
\* i           convert's loop index, unbound before the first
\*             iteration of the run                                  (235, 251)
\* tables      self.tables, entity name -> list of records           (130)
\* pc          where main and convert are: "next_file", "gen" (the
\*             generator runs), "body", "file_end", "converted",
\*             "written", "crashed"; "process_path" in SpecPath
\* exc         the exception that ended the run, with its line
\* raised      what the last call of process_doc raised              (238-240)
\* log         the warnings of the except clause                     (245-249)
\* calls       the documents process_doc was called on, this file    (239)
\* fieldnames  write_csv_files' fieldnames                           (294)
\* args, ret   the arguments and the outcome of the call of
\*             process_path that SpecPath makes                      (172-219)
vars == <<config, xml_files, fidx, lineno, xml_doc, doc, i, tables, pc, exc,
          raised, log, calls, fieldnames, args, ret>>

(***************************************************************************)
(* Bounds of the model.                                                    *)
(***************************************************************************)
\* the largest number of documents in the batch (over all its files)
MaxDocs == 3
\* the largest number of input files of a run
MaxFiles == 2

(***************************************************************************)
(* Strings.                                                                *)
(***************************************************************************)
Whitespace == {" ", "\t", "\n"}

RECURSIVE collapse_ws(_)
\* re.sub(r"\s+", " ", s): every maximal run of whitespace becomes one space
collapse_ws(s) ==
    IF s = <<>> THEN <<>>
    ELSE IF Head(s) \in Whitespace
         THEN IF Len(s) > 1 /\ s[2] \in Whitespace
              THEN collapse_ws(Tail(s))
              ELSE <<" ">> \o collapse_ws(Tail(s))
         ELSE <<Head(s)>> \o collapse_ws(Tail(s))

RECURSIVE lstrip(_)
lstrip(s) ==
    IF s # <<>> /\ Head(s) \in Whitespace THEN lstrip(Tail(s)) ELSE s

RECURSIVE rstrip(_)
rstrip(s) ==
    IF s # <<>> /\ s[Len(s)] \in Whitespace
    THEN rstrip(SubSeq(s, 1, Len(s) - 1)) ELSE s

\* str.strip()
strip(s) == rstrip(lstrip(s))

\* config.startswith("|")
startswith_pipe(s) == Len(s) > 0 /\ s[1] = "|"

\* ":" in config
has_colon(s) == \E n \in 1..Len(s) : s[n] = ":"

RECURSIVE split_colon(_)
\* config.split(":"): the list of the pieces between the colons
split_colon(s) ==
    IF ~has_colon(s) THEN <<s>>
    ELSE LET n == CHOOSE m \in 1..Len(s) :
                      s[m] = ":" /\ \A l \in 1..(m - 1) : s[l] # ":"
         IN <<SubSeq(s, 1, n - 1)>> \o split_colon(SubSeq(s, n + 1, Len(s)))

RECURSIVE join_pipe(_)
\* "|".join(texts)
join_pipe(texts) ==
    IF texts = <<>> THEN <<>>
    ELSE IF Len(texts) = 1 THEN texts[1]
    ELSE texts[1] \o <<"|">> \o join_pipe(Tail(texts))

Digit(n) == CASE n = 0 -> "0" [] n = 1 -> "1" [] n = 2 -> "2" [] n = 3 -> "3"
              [] n = 4 -> "4" [] n = 5 -> "5" [] n = 6 -> "6" [] n = 7 -> "7"
              [] n = 8 -> "8" [] n = 9 -> "9"

RECURSIVE decimal(_)
\* f"{n}" for a natural number n
decimal(n) == IF n < 10 THEN <<Digit(n)>>
              ELSE decimal(n \div 10) \o <<Digit(n % 10)>>

ID == <<"i", "d">>
\* f"{parent_entity}_id"
parent_column(parent_entity) == parent_entity \o <<"_">> \o ID

(***************************************************************************)
(* Dicts (records of the table store) and the None value.                  *)
(***************************************************************************)
EmptyDict == [k \in {} |-> <<>>]
\* record[key] = value
SetItem(record, key, value) ==
    [k \in (DOMAIN record) \cup {key} |-> IF k = key THEN value ELSE record[k]]

None == [isNone |-> TRUE, v |-> <<>>]
Some(s) == [isNone |-> FALSE, v |-> s]
\* Python truthiness of a value that is None or a str
Truthy(x) == ~x.isNone /\ x.v # <<>>

(***************************************************************************)
(* Element trees, as the parsing collaborator (lxml) returns them.         *)
(* `text` is the flattened text of the element and of its descendants, as  *)
(* etree.tostring(elem, method="text") gives it.                           *)
(***************************************************************************)
Elem(tag, text, kids) == [tag |-> tag, text |-> text, kids |-> kids]

\* get_text: whitespace runs collapsed to one space, then stripped
get_text(elem) == strip(collapse_ws(elem.text))

RECURSIVE texts_of(_)
\* [self.get_text(elem) for elem in elems]
texts_of(elems) ==
    IF elems = <<>> THEN <<>>
    ELSE <<get_text(Head(elems))>> \o texts_of(Tail(elems))

RECURSIVE children_at(_, _, _)
\* for the elements `nodes`, in order, their children with tag `tag`
children_at(nodes, n, tag) ==
    IF n > Len(nodes) THEN <<>>
    ELSE SelectSeq(nodes[n].kids, LAMBDA e : e.tag = tag)
         \o children_at(nodes, n + 1, tag)

RECURSIVE find_from(_, _)
find_from(nodes, path) ==
    IF path = <<>> THEN nodes
    ELSE find_from(children_at(nodes, 1, Head(path)), Tail(path))

\* node.findall("./" + path): a path is a sequence of tags, "a/b" = <<"a","b">>
findall(node, path) == find_from(<<node>>, path)

\* the two kinds of context a rule is resolved against: the parsed document
\* (an ElementTree, which has getroot) and an element (which has not)
TreeCtx(root) == [isTree |-> TRUE, node |-> root]
ElemCtx(elem) == [isTree |-> FALSE, node |-> elem]

(***************************************************************************)
(* The Schema Config Model: json.load(open(config)).  A JSON object is an  *)
(* ordered mapping, here a sequence of [path, rule] entries with distinct  *)
(* paths; a rule is a JSON string or a JSON object with "entity",          *)
(* "fields" and, optionally, "pk" (<<>> when the key is absent).           *)
(***************************************************************************)
Str(s) == [kind |-> "str", s |-> s]
Entity(name, pk, fields) ==
    [kind |-> "entity", entity |-> name, pk |-> pk, fields |-> fields]
Entry(path, rule) == [path |-> path, rule |-> rule]

\* what process_path hands back: the table store as it left it, the record it
\* was given, the exception it raised ("none" if none), the function that
\* raised it and, for the assertion of a scalar rule, that rule
Result(t, record, e, site, rule) ==
    [tables |-> t, record |-> record, exc |-> e, site |-> site, rule |-> rule]

\* get_pk: the key, or None when the rule declares no (or an empty) "pk"
get_pk(tree, cfg) ==
    IF cfg.pk # <<>>
    THEN LET elems == findall(tree.node, cfg.pk)
         IN IF Len(elems) # 1
            THEN [exc |-> "AssertionError", pk |-> None]
            ELSE [exc |-> "none", pk |-> Some(get_text(elems[1]))]
    ELSE [exc |-> "none", pk |-> None]

\* a plausible slip: the multiplicity assertion also guards the "|" rules
process_scalar_asserting(elems, cfg, record) ==
    IF elems = <<>> THEN [record |-> record, exc |-> "none"]
    ELSE IF Len(elems) # 1 THEN [record |-> record, exc |-> "AssertionError"]
    ELSE IF startswith_pipe(cfg)
    THEN [record |-> SetItem(record, Tail(cfg), join_pipe(texts_of(elems))),
          exc |-> "none"]
    ELSE IF has_colon(cfg)
    THEN [record |-> SetItem(record, split_colon(cfg)[1], split_colon(cfg)[2]),
          exc |-> "none"]
    ELSE [record |-> SetItem(record, cfg, get_text(elems[1])), exc |-> "none"]

\* process_path, the branch isinstance(config, str)
process_scalar(elems, cfg, record) ==
    IF elems = <<>> THEN [record |-> record, exc |-> "none"]
    ELSE IF startswith_pipe(cfg)
    THEN [record |-> SetItem(record, Tail(cfg), join_pipe(texts_of(elems))),
          exc |-> "none"]
    ELSE IF Len(elems) # 1 THEN [record |-> record, exc |-> "AssertionError"]
    ELSE IF has_colon(cfg)
    THEN [record |-> SetItem(record, split_colon(cfg)[1], split_colon(cfg)[2]),
          exc |-> "none"]
    ELSE [record |-> SetItem(record, cfg, get_text(elems[1])), exc |-> "none"]

RECURSIVE process_path(_, _, _, _, _, _, _)
RECURSIVE process_elems(_, _, _, _, _, _, _)
RECURSIVE process_fields(_, _, _, _, _, _, _)

\* process_path(tree, path, config, record, parent_entity, parent_pk) on the
\* table store t
process_path(t, tree, path, cfg, record, parent_entity, parent_pk) ==
    LET elems == IF tree.isTree THEN <<tree.node>> ELSE findall(tree.node, path)
    IN IF cfg.kind = "str"
       THEN LET r == process_scalar(elems, cfg.s, record)
            IN IF r.exc = "none" THEN Result(t, r.record, "none", "", <<>>)
               ELSE Result(t, r.record, r.exc, "process_path", cfg.s)
       ELSE LET r == process_elems(t, tree, elems, 1, cfg, parent_entity, parent_pk)
            IN Result(r.tables, record, r.exc, r.site, r.rule)

\* the loop "for elem in elems" of an entity rule, from element n on
process_elems(t, tree, elems, n, cfg, parent_entity, parent_pk) ==
    IF n > Len(elems) THEN Result(t, EmptyDict, "none", "", <<>>)
    ELSE
      LET got == get_pk(tree, cfg)
      IN IF got.exc # "none" THEN Result(t, EmptyDict, got.exc, "get_pk", <<>>)
         ELSE
           LET pk == got.pk
               entity == cfg.entity
               withId == SetItem(EmptyDict, ID,
                             IF Truthy(pk) THEN pk.v ELSE decimal(Len(t[entity])))
               srecord == IF Truthy(parent_pk)
                          THEN SetItem(withId, parent_column(parent_entity.v),
                                       parent_pk.v)
                          ELSE withId
               done == process_fields(t, elems[n], cfg.fields, 1, srecord,
                                      Some(entity), pk)
           IN IF done.exc # "none" THEN done
              ELSE process_elems(
                     [done.tables EXCEPT ![entity] = Append(@, done.record)],
                     tree, elems, n + 1, cfg, parent_entity, parent_pk)

\* the loop "for subpath, subconfig in config['fields'].items()", from field n on
process_fields(t, elem, fields, n, srecord, entity, pk) ==
    IF n > Len(fields) THEN Result(t, srecord, "none", "", <<>>)
    ELSE LET r == process_path(t, ElemCtx(elem), fields[n].path, fields[n].rule,
                               srecord, entity, pk)
         IN IF r.exc # "none" THEN r
            ELSE process_fields(r.tables, elem, fields, n + 1, r.record, entity, pk)

RECURSIVE process_entries(_, _, _, _)
\* the loop "for path, config in self.config.items()" of process_doc
process_entries(t, tree, cfg, n) ==
    IF n > Len(cfg) THEN Result(t, EmptyDict, "none", "", <<>>)
    ELSE LET r == process_path(t, tree, cfg[n].path, cfg[n].rule, EmptyDict,
                               None, None)
         IN IF r.exc # "none" THEN r
            ELSE process_entries(r.tables, tree, cfg, n + 1)

(***************************************************************************)
(* get_fieldnames.                                                         *)
(***************************************************************************)
RECURSIVE dedup(_, _)
\* list(dict.fromkeys(names).keys()): the first occurrence of each name
dedup(names, seen) ==
    IF names = <<>> THEN <<>>
    ELSE IF Head(names) \in seen THEN dedup(Tail(names), seen)
    ELSE <<Head(names)>> \o dedup(Tail(names), seen \cup {Head(names)})

\* a plausible slip: the later declaration overwrites the entity's columns
merge_fieldnames_overwriting(old, new) == dedup(new, {})

\* fieldnames[entity] = list(dict.fromkeys(fieldnames[entity] + _fieldnames))
merge_fieldnames(old, new) == dedup(old \o new, {})

RECURSIVE add_fieldnames(_, _, _, _)
RECURSIVE add_fields(_, _, _, _, _)

\* add_fieldnames(config, _fieldnames, parent_entity) on the dict fn; it hands
\* back fn and the caller's list _fieldnames as the call left them
add_fieldnames(fn, cfg, cols, parent_entity) ==
    IF cfg.kind = "str"
    THEN [fn |-> fn,
          cols |-> IF has_colon(cfg.s) THEN Append(cols, split_colon(cfg.s)[1])
                   ELSE IF startswith_pipe(cfg.s) THEN Append(cols, Tail(cfg.s))
                   ELSE Append(cols, cfg.s)]
    ELSE LET entity == cfg.entity
             c0 == IF cfg.pk # <<>> \/ ~parent_entity.isNone THEN <<ID>> ELSE <<>>
             c1 == IF ~parent_entity.isNone
                   THEN Append(c0, parent_column(parent_entity.v)) ELSE c0
             r == add_fields(fn, cfg.fields, 1, c1, entity)
         IN [fn |-> [r.fn EXCEPT ![entity] = merge_fieldnames(@, r.cols)],
             cols |-> cols]

\* the loop "for subconfig in config['fields'].values()", from field n on
add_fields(fn, fields, n, cols, entity) ==
    IF n > Len(fields) THEN [fn |-> fn, cols |-> cols]
    ELSE LET r == add_fieldnames(fn, fields[n].rule, cols, Some(entity))
         IN add_fields(r.fn, fields, n + 1, r.cols, entity)

\* get_fieldnames(): the resolved columns of every entity, a dict with the
\* default [] on the entities `names`
RECURSIVE add_entries(_, _, _)
add_entries(fn, cfg, n) ==
    IF n > Len(cfg) THEN fn
    ELSE add_entries(add_fieldnames(fn, cfg[n].rule, <<>>, None).fn, cfg, n + 1)

get_fieldnames(cfg, names) == add_entries([e \in names |-> <<>>], cfg, 1)

(***************************************************************************)
(* Inputs: the documents of the batch.  A document is two lines of its     *)
(* file, the "<?xml" declaration and the line of its root element.         *)
(***************************************************************************)
K(text) == Elem("k", text, <<>>)
X(text) == Elem("x", text, <<>>)
F(text) == Elem("f", text, <<>>)
Y(text) == Elem("y", text, <<>>)
N(kids) == Elem("n", <<"\n">>, kids)
R(kids) == Elem("r", <<" ">>, kids)

N_one == N(<<X(<<"v">>), Y(<<"a">>), F(<<>>)>>)
N_joined == N(<<Y(<<"a", " ">>), Y(<<"b">>)>>)
N_twice == N(<<X(<<"v">>), X(<<"w">>)>>)

\* [name, wellformed, pid, root]: pid is the number the pattern
\* <B210><DNUM><PDAT>(\d+)</PDAT></DNUM></B210> finds in the text, <<>> if the
\* pattern does not occur; root is the parsed tree of a well-formed document
Documents == {
    [name |-> "good", wellformed |-> TRUE, pid |-> <<"1">>,
     root |-> R(<<K(<<"p", "1">>), X(<<" ", "a", "\n", " ", "b", "\t">>),
                  F(<<"z">>), Y(<<"a">>), Y(<<" ", "b">>), Y(<<"c">>),
                  N_one, N_joined>>)],
    [name |-> "multi", wellformed |-> TRUE, pid |-> <<"2">>,
     root |-> R(<<K(<<"p", "2">>), N_one, X(<<"u">>), X(<<"w">>),
                  F(<<>>), F(<<"z">>), Y(<<"a">>)>>)],
    [name |-> "nested_multi", wellformed |-> TRUE, pid |-> <<"3">>,
     root |-> R(<<K(<<"p", "3">>), X(<<"u">>), N_one, N_twice>>)],
    [name |-> "blank_key", wellformed |-> TRUE, pid |-> <<"4">>,
     root |-> R(<<K(<<" ", "\n">>), N_one>>)],
    [name |-> "no_key", wellformed |-> TRUE, pid |-> <<>>,
     root |-> R(<<X(<<"u">>), F(<<>>), N_joined>>)],
    [name |-> "malformed", wellformed |-> FALSE, pid |-> <<"6">>,
     root |-> R(<<>>)],
    [name |-> "malformed_no_id", wellformed |-> FALSE, pid |-> <<>>,
     root |-> R(<<>>)] }

DocNames == {d.name : d \in Documents}
Doc(name) == CHOOSE d \in Documents : d.name = name

\* the lines of a document in its file
DocLines(name) == <<[marker |-> TRUE, d |-> name], [marker |-> FALSE, d |-> name]>>

RECURSIVE FileLines(_)
\* the lines of a file holding the documents `file`, in order
FileLines(file) ==
    IF file = <<>> THEN <<>> ELSE DocLines(Head(file)) \o FileLines(Tail(file))

RECURSIVE Split(_, _, _)
\* the sequence s cut into files after the positions of `cuts`
Split(s, cuts, from) ==
    IF cuts = {} THEN <<SubSeq(s, from, Len(s))>>
    ELSE LET c == CHOOSE m \in cuts : \A n \in cuts : m <= n
         IN <<SubSeq(s, from, c)>> \o Split(s, cuts \ {c}, c + 1)

DocSeqs == UNION {[1..n -> DocNames] : n \in 1..MaxDocs}
\* the batches: 1..MaxFiles files, each of at least one document
FileLists ==
    UNION {{Split(s, cuts, 1) :
               cuts \in {c \in SUBSET (1..(Len(s) - 1)) : Cardinality(c) < MaxFiles}}
           : s \in DocSeqs}

(***************************************************************************)
(* Inputs: the configs.                                                    *)
(***************************************************************************)
A == <<"A">>
B == <<"B">>
C == <<"C">>
Entities == {A, B, C}

COL == <<"c">>
FLAG == <<"g", ":", "Y">>
JOIN == <<"|", "j">>
PIPE_COLON == <<"|", "a", ":", "b">>

\* a natural key on the top-level rule, a nested rule under it
cfg_natural ==
    <<Entry(<<"r">>, Entity(A, <<"k">>,
        <<Entry(<<"x">>, Str(COL)), Entry(<<"f">>, Str(FLAG)),
          Entry(<<"y">>, Str(JOIN)),
          Entry(<<"n">>, Entity(B, <<>>,
              <<Entry(<<"x">>, Str(COL)), Entry(<<"y">>, Str(JOIN)),
                Entry(<<"f">>, Entity(C, <<>>, <<>>))>>))>>))>>

\* no "pk" anywhere; the nested rule comes before the parent's own fields
cfg_synthetic ==
    <<Entry(<<"r">>, Entity(A, <<>>,
        <<Entry(<<"n">>, Entity(B, <<>>, <<Entry(<<"y">>, Str(JOIN))>>)),
          Entry(<<"x">>, Str(COL)), Entry(<<"f">>, Str(FLAG))>>))>>

\* two top-level paths declare the same entity; the second also nests it
cfg_alias ==
    <<Entry(<<"r">>, Entity(A, <<"k">>,
        <<Entry(<<"y">>, Str(JOIN)), Entry(<<"f">>, Str(FLAG))>>)),
      Entry(<<"r2">>, Entity(A, <<"k">>,
        <<Entry(<<"x">>, Str(COL)), Entry(<<"y">>, Str(JOIN)),
          Entry(<<"n">>, Entity(B, <<"k">>, <<Entry(<<"x">>, Str(COL))>>))>>)),
      Entry(<<"r3">>, Entity(C, <<>>,
        <<Entry(<<"n">>, Entity(B, <<>>, <<Entry(<<"x">>, Str(<<"h">>))>>))>>))>>

\* a rule nested inside a rule of the same entity name
cfg_selfnest ==
    <<Entry(<<"r">>, Entity(A, <<>>,
        <<Entry(<<"y">>, Str(JOIN)),
          Entry(<<"n">>, Entity(A, <<>>, <<Entry(<<"x">>, Str(COL))>>))>>))>>

\* a top-level scalar rule, a path of two tags, a "|" rule with a colon
cfg_pipecolon ==
    <<Entry(<<"t">>, Str(COL)),
      Entry(<<"r">>, Entity(A, <<"k">>,
        <<Entry(<<"n", "y">>, Str(PIPE_COLON)), Entry(<<"f">>, Str(FLAG))>>))>>

Configs == {cfg_natural, cfg_synthetic, cfg_alias, cfg_selfnest, cfg_pipecolon}

(***************************************************************************)
(* process_doc and the handler of convert.                                 *)
(***************************************************************************)
\* process_doc(doc) on the table store t: etree.parse raises XMLSyntaxError
\* unless the text (after replace_missing_mathml_ents) is one well-formed
\* document; then every top-level config entry is applied to the tree
process_doc(t, cfg, text) ==
    LET name == text[1].d
    IN IF text # DocLines(name) \/ ~Doc(name).wellformed
       THEN Result(t, EmptyDict, "XMLSyntaxError", "process_doc", <<>>)
       ELSE process_entries(t, TreeCtx(Doc(name).root), cfg, 1)

\* re.search(r"<B210><DNUM><PDAT>(\d+)...", doc): the first match, or None
search_p_id(text) ==
    LET hits == SelectSeq(text, LAMBDA l : ~l.marker /\ Doc(l.d).pid # <<>>)
    IN IF hits = <<>> THEN None ELSE Some(Doc(hits[1].d).pid)

\* exc.msg: XMLSyntaxError is a SyntaxError and has the attribute,
\* AssertionError has not
has_msg(e) == e = "XMLSyntaxError"

NoException == [type |-> "none", line |-> 0]
Unbound == [bound |-> FALSE, v |-> 0]
NoArgs == [tree |-> TreeCtx(R(<<>>)), path |-> <<>>, rule |-> Str(<<>>),
           record |-> EmptyDict, parent_entity |-> None, parent_pk |-> None,
           tables |-> [e \in Entities |-> <<>>]]
NotReturned == [done |-> FALSE, tables |-> [e \in Entities |-> <<>>],
                record |-> EmptyDict, exc |-> "none", site |-> "", rule |-> <<>>]

(***************************************************************************)
(* The run: main() calls convert() and then write_csv_files().             *)
(***************************************************************************)
Init ==
    /\ config \in Configs
    /\ xml_files \in FileLists
    /\ fidx = 0
    /\ lineno = 0
    /\ xml_doc = <<>>
    /\ doc = <<>>
    /\ i = Unbound
    /\ tables = [e \in Entities |-> <<>>]
    /\ pc = "next_file"
    /\ exc = NoException
    /\ raised = "none"
    /\ log = <<>>
    /\ calls = <<>>
    /\ fieldnames = [e \in Entities |-> <<>>]
    /\ args = NoArgs
    /\ ret = NotReturned

Lines == FileLines(xml_files[fidx])

\* for input_file in self.xml_files: the next file is opened and the
\* generator yield_xml_doc(input_file) is created
NextFile ==
    /\ pc = "next_file"
    /\ fidx < Len(xml_files)
    /\ fidx' = fidx + 1
    /\ lineno' = 0
    /\ xml_doc' = <<>>
    /\ calls' = <<>>
    /\ pc' = "gen"
    /\ UNCHANGED <<config, xml_files, doc, i, tables, exc, raised, log,
                   fieldnames, args, ret>>

\* yield_xml_doc reads a line that does not make it yield
ReadLine ==
    /\ pc = "gen"
    /\ lineno < Len(Lines)
    /\ LET line == Lines[lineno + 1]
       IN /\ ~(line.marker /\ xml_doc # <<>>)
          /\ xml_doc' = Append(IF line.marker THEN <<>> ELSE xml_doc, line)
    /\ lineno' = lineno + 1
    /\ UNCHANGED <<config, xml_files, fidx, doc, i, tables, pc, exc, raised,
                   log, calls, fieldnames, args, ret>>

\* yield_xml_doc reads a "<?xml" line with a document collected: it yields
\* the document (and, when resumed, starts the next one with this line);
\* enumerate binds i to the number of documents yielded before
Yield ==
    /\ pc = "gen"
    /\ lineno < Len(Lines)
    /\ LET line == Lines[lineno + 1]
       IN /\ line.marker /\ xml_doc # <<>>
          /\ doc' = xml_doc
          /\ xml_doc' = <<line>>
    /\ lineno' = lineno + 1
    /\ i' = [bound |-> TRUE, v |-> Len(calls)]
    /\ pc' = "body"
    /\ UNCHANGED <<config, xml_files, fidx, tables, exc, raised, log, calls,
                   fieldnames, args, ret>>

\* the file is read to its end: the generator returns, the for loop ends
Exhausted ==
    /\ pc = "gen"
    /\ lineno = Len(Lines)
    /\ pc' = "file_end"
    /\ UNCHANGED <<config, xml_files, fidx, lineno, xml_doc, doc, i, tables,
                   exc, raised, log, calls, fieldnames, args, ret>>

\* the loop body, process_doc returns
BodyOk ==
    /\ pc = "body"
    /\ LET r == process_doc(tables, config, doc)
       IN /\ r.exc = "none"
          /\ tables' = r.tables
    /\ raised' = "none"
    /\ calls' = Append(calls, doc[1].d)
    /\ pc' = "gen"
    /\ UNCHANGED <<config, xml_files, fidx, lineno, xml_doc, doc, i, exc, log,
                   fieldnames, args, ret>>

\* the loop body, process_doc raises: the except clause takes
\* AssertionError and XMLSyntaxError; p_id = re.search(...).group(1) raises
\* AttributeError when the pattern is not found, and the argument exc.msg of
\* logging.warning raises AttributeError when exc has no msg
BodyRaises ==
    /\ pc = "body"
    /\ LET r == process_doc(tables, config, doc)
           p_id == search_p_id(doc)
       IN /\ r.exc # "none"
          /\ tables' = r.tables
          /\ raised' = r.exc
          /\ IF p_id.isNone
             THEN /\ exc' = [type |-> "AttributeError", line |-> 244]
                  /\ pc' = "crashed"
                  /\ log' = log
             ELSE IF ~has_msg(r.exc)
             THEN /\ exc' = [type |-> "AttributeError", line |-> 248]
                  /\ pc' = "crashed"
                  /\ log' = log
             ELSE /\ exc' = exc
                  /\ pc' = "gen"
                  /\ log' = Append(log, [p_id |-> p_id.v, msg |-> r.exc])
    /\ calls' = Append(calls, doc[1].d)
    /\ UNCHANGED <<config, xml_files, fidx, lineno, xml_doc, doc, i,
                   fieldnames, args, ret>>

\* logging.info("...%d records processed!", i + 1) after the loop of a file:
\* i is unbound if no iteration of any file's loop has run
FileEnd ==
    /\ pc = "file_end"
    /\ IF i.bound
       THEN pc' = "next_file" /\ exc' = exc
       ELSE pc' = "crashed" /\ exc' = [type |-> "UnboundLocalError", line |-> 251]
    /\ UNCHANGED <<config, xml_files, fidx, lineno, xml_doc, doc, i, tables,
                   raised, log, calls, fieldnames, args, ret>>

\* convert returns after the last file
ConvertReturns ==
    /\ pc = "next_file"
    /\ fidx = Len(xml_files)
    /\ pc' = "converted"
    /\ UNCHANGED <<config, xml_files, fidx, lineno, xml_doc, doc, i, tables,
                   exc, raised, log, calls, fieldnames, args, ret>>

\* csv.DictWriter(fieldnames=...).writerows(rows) raises ValueError for a row
\* with a key that is not a fieldname (extrasaction="raise" is the default)
writable(fn, t) ==
    \A e \in DOMAIN t : \A n \in 1..Len(t[e]) :
        \A k \in DOMAIN t[e][n] : \E m \in 1..Len(fn[e]) : fn[e][m] = k

\* write_csv_files
WriteCsvFiles ==
    /\ pc = "converted"
    /\ fieldnames' = get_fieldnames(config, Entities)
    /\ IF writable(fieldnames', tables)
       THEN pc' = "written" /\ exc' = exc
       ELSE pc' = "crashed" /\ exc' = [type |-> "ValueError", line |-> 304]
    /\ UNCHANGED <<config, xml_files, fidx, lineno, xml_doc, doc, i, tables,
                   raised, log, calls, args, ret>>

Next ==
    \/ NextFile
    \/ ReadLine
    \/ Yield
    \/ Exhausted
    \/ BodyOk
    \/ BodyRaises
    \/ FileEnd
    \/ ConvertReturns
    \/ WriteCsvFiles

Spec == Init /\ [][Next]_vars

(***************************************************************************)
(* process_path on its own: one call, with arguments as a run makes them.  *)
(***************************************************************************)
Call(tree, entry, parent_entity, parent_pk) ==
    [tree |-> tree, path |-> entry.path, rule |-> entry.rule,
     parent_entity |-> parent_entity, parent_pk |-> parent_pk]

RECURSIVE CallsUnder(_, _, _, _)
\* the calls of process_path that applying `entries` to the context `tree`
\* makes, at every depth
CallsUnder(tree, entries, parent_entity, parent_pk) ==
    UNION {
      LET rule == entries[n].rule
          elems == IF tree.isTree THEN <<tree.node>>
                   ELSE findall(tree.node, entries[n].path)
          got == IF rule.kind = "str" THEN [exc |-> "none", pk |-> None]
                 ELSE get_pk(tree, rule)
      IN {Call(tree, entries[n], parent_entity, parent_pk)}
         \cup IF rule.kind = "str" \/ got.exc # "none" THEN {}
              ELSE UNION {CallsUnder(ElemCtx(elems[m]), rule.fields,
                                     Some(rule.entity), got.pk)
                          : m \in 1..Len(elems)}
      : n \in 1..Len(entries)}

\* table stores a call can find: empty, or with rows of earlier documents
Stores ==
    {[e \in Entities |-> <<>>],
     [e \in Entities |->
        IF e = A THEN <<SetItem(EmptyDict, ID, <<"0">>)>>
        ELSE IF e = B THEN <<SetItem(EmptyDict, ID, <<"0">>),
                             SetItem(EmptyDict, ID, <<"1">>)>>
        ELSE <<>>]}

\* records a call can be given: the fresh {} of process_doc at the top level,
\* below it the record of the enclosing instance, before or after an earlier
\* field has set the column "c"
RecordsFor(tree) ==
    IF tree.isTree THEN {EmptyDict}
    ELSE {SetItem(EmptyDict, ID, <<"7">>),
          SetItem(SetItem(EmptyDict, ID, <<"7">>), COL, <<"o">>)}

PathInit ==
    /\ config \in Configs
    /\ \E d \in {x \in Documents : x.wellformed}, t \in Stores :
         \E c \in CallsUnder(TreeCtx(d.root), config, None, None) :
           \E rec \in RecordsFor(c.tree) :
             args = [tree |-> c.tree, path |-> c.path, rule |-> c.rule,
                     record |-> rec, parent_entity |-> c.parent_entity,
                     parent_pk |-> c.parent_pk, tables |-> t]
    /\ ret = NotReturned
    /\ xml_files = <<>>
    /\ fidx = 0
    /\ lineno = 0
    /\ xml_doc = <<>>
    /\ doc = <<>>
    /\ i = Unbound
    /\ tables = [e \in Entities |-> <<>>]
    /\ pc = "process_path"
    /\ exc = NoException
    /\ raised = "none"
    /\ log = <<>>
    /\ calls = <<>>
    /\ fieldnames = [e \in Entities |-> <<>>]

\* the call process_path(tree, path, config, record, parent_entity, parent_pk)
ProcessPath ==
    /\ pc = "process_path"
    /\ ~ret.done
    /\ LET r == process_path(args.tables, args.tree, args.path, args.rule,
                             args.record, args.parent_entity, args.parent_pk)
       IN ret' = [done |-> TRUE, tables |-> r.tables, record |-> r.record,
                  exc |-> r.exc, site |-> r.site, rule |-> r.rule]
    /\ UNCHANGED <<config, xml_files, fidx, lineno, xml_doc, doc, i, tables,
                   pc, exc, raised, log, calls, fieldnames, args>>

PathNext == ProcessPath

SpecPath == PathInit /\ [][PathNext]_vars

(***************************************************************************)
(* Properties of the batch driver (specification Spec).                    *)
(***************************************************************************)
\* the step that runs the loop body on the document `doc`
BodyStep == pc = "body" /\ pc' # "body"

\* C1: whenever process_doc fails with a parse failure or a schema
\* violation, the failure is handled inside the loop of convert: it is logged
\* with the document's identifier and the loop goes on to the next document;
\* nothing propagates out of convert.
C1_FailureHandledInLoop ==
    [][(BodyStep /\ process_doc(tables, config, doc).exc
                       \in {"AssertionError", "XMLSyntaxError"})
       => /\ pc' = "gen"
          /\ exc' = NoException
          /\ Len(log') = Len(log) + 1
          /\ log'[Len(log')].p_id = search_p_id(doc).v]_vars

\* C2: every document of a file is extracted exactly once, in file order:
\* when the loop over a file of n >= 1 documents ends, process_doc has been
\* called on each of the n documents, the last included, and the end of the
\* file's loop raises nothing.
C2_EveryDocumentProcessed ==
    /\ pc = "file_end" => calls = xml_files[fidx]
    /\ exc.type # "UnboundLocalError"

\* a scalar rule that reads the element's text: neither "|col" nor "field:value"
IsTextRule(s) == ~startswith_pipe(s) /\ ~has_colon(s)

\* C3: when a Text rule's path matches two or more elements during the
\* extraction of a document, process_path raises AssertionError and every
\* table of self.tables is what it was just before process_doc was called.
C3_FailedDocumentAppendsNothing ==
    [][(BodyStep /\ LET r == process_doc(tables, config, doc)
                    IN r.site = "process_path" /\ IsTextRule(r.rule))
       => raised' = "AssertionError" /\ tables' = tables]_vars

RECURSIVE RulesIn(_)
\* the entity rules of the entries, at every depth
RulesIn(entries) ==
    UNION {IF entries[n].rule.kind = "str" THEN {}
           ELSE {entries[n].rule} \cup RulesIn(entries[n].rule.fields)
           : n \in 1..Len(entries)}

\* the entity names none of whose rules declares a primary key
SyntheticEntities(cfg) ==
    {e \in Entities : /\ \E r \in RulesIn(cfg) : r.entity = e
                      /\ \A r \in RulesIn(cfg) : r.entity = e => r.pk = <<>>}

\* C5: for an entity name whose rules declare no primary key, the record at
\* zero-based position k of self.tables[entity] has the id str(k), after any
\* sequence of documents.
C5_SyntheticKeyIsPosition ==
    \A e \in SyntheticEntities(config) :
        \A n \in 1..Len(tables[e]) : tables[e][n][ID] = decimal(n - 1)

\* C6: every column name of every record in self.tables[entity] is a member
\* of get_fieldnames()[entity].
C6_FieldnamesCoverRecords ==
    writable(get_fieldnames(config, Entities), tables)

\* write_csv_files has resolved the columns (it does so before it writes)
Resolved == pc = "written" \/ exc.type = "ValueError"

\* the column a scalar rule contributes to its declaration's column list
ColumnOf(s) ==
    IF has_colon(s)
    THEN SubSeq(s, 1, (CHOOSE m \in 1..Len(s) :
                          s[m] = ":" /\ \A l \in 1..(m - 1) : s[l] # ":") - 1)
    ELSE IF startswith_pipe(s) THEN SubSeq(s, 2, Len(s))
    ELSE s

\* the column list of one declaration (entity rule): "id" if it declares a
\* primary key or is nested, the parent link if it is nested, then the columns
\* of its scalar fields in declaration order
OwnColumns(rule, parent_entity) ==
    LET scalars == SelectSeq(rule.fields, LAMBDA f : f.rule.kind = "str")
    IN (IF rule.pk # <<>> \/ ~parent_entity.isNone THEN <<ID>> ELSE <<>>)
       \o (IF parent_entity.isNone THEN <<>>
           ELSE <<parent_entity.v \o <<"_", "i", "d">> >>)
       \o [n \in 1..Len(scalars) |-> ColumnOf(scalars[n].rule.s)]

RECURSIVE Declarations(_, _, _)
\* the declarations of the entries from entry n on, each with its entity name
\* and column list, in the order in which they end in the config: top-level
\* entries in config order, a nested rule before the rule that encloses it
Declarations(entries, n, parent_entity) ==
    IF n > Len(entries) THEN <<>>
    ELSE LET rule == entries[n].rule
         IN (IF rule.kind = "str" THEN <<>>
             ELSE Declarations(rule.fields, 1, Some(rule.entity))
                  \o <<[entity |-> rule.entity,
                        cols |-> OwnColumns(rule, parent_entity)]>>)
            \o Declarations(entries, n + 1, parent_entity)

RECURSIVE Concat(_)
Concat(decls) ==
    IF decls = <<>> THEN <<>> ELSE Head(decls).cols \o Concat(Tail(decls))

\* the columns of all the declarations of entity e, declaration after
\* declaration
DeclaredColumns(cfg, e) ==
    Concat(SelectSeq(Declarations(cfg, 1, None), LAMBDA d : d.entity = e))

FirstIndex(seq, x) == CHOOSE n \in 1..Len(seq) :
                          seq[n] = x /\ \A m \in 1..(n - 1) : seq[m] # x

IsPrefix(p, q) == Len(p) <= Len(q) /\ SubSeq(q, 1, Len(p)) = p

Matched == IF args.tree.isTree THEN <<args.tree.node>>
           ELSE findall(args.tree.node, args.path)

\* the rows the call has appended to the table of entity e
NewRows(e) == SubSeq(ret.tables[e], Len(args.tables[e]) + 1, Len(ret.tables[e]))

ScalarCall == ret.done /\ args.rule.kind = "str"
EntityCall == ret.done /\ args.rule.kind = "entity"

\* the entities of the rules directly among the fields of a rule
ChildEntities(rule) ==
    {rule.fields[n].rule.entity :
        n \in {m \in 1..Len(rule.fields) : rule.fields[m].rule.kind = "entity"}}

\* C4: every record appended for a nested entity rule carries the column
\* '<parentEntity>_id', and its value is the 'id' of the parent record under
\* which it was extracted, whether the parent's key is natural or synthetic.
\* (Stated for a call that appends one parent record, so that every row of a
\* child entity was extracted under it.)
C4_ParentLinkage ==
    (EntityCall /\ ret.exc = "none" /\ Len(NewRows(args.rule.entity)) = 1)
    => \A c \in ChildEntities(args.rule) \ {args.rule.entity} :
         \A n \in 1..Len(NewRows(c)) :
           LET row == NewRows(c)[n]
               link == args.rule.entity \o <<"_", "i", "d">>
           IN /\ link \in DOMAIN row
              /\ row[link] = NewRows(args.rule.entity)[1][ID]

\* "field:value"
IsLiteralRule(s) == has_colon(s) /\ ~startswith_pipe(s)

\* C7: a rule 'field:value' sets record['field'] to 'value' whenever its path
\* matches at least one element (one or several), without raising; when the
\* path matches no element the key 'field' is absent from the record.
C7_LiteralFlag ==
    (ScalarCall /\ IsLiteralRule(args.rule.s))
    => LET field == ColumnOf(args.rule.s)
           value == SubSeq(args.rule.s, Len(field) + 2, Len(args.rule.s))
       IN /\ Matched # <<>> =>
               /\ ret.exc = "none"
               /\ field \in DOMAIN ret.record
               /\ ret.record[field] = value
          /\ Matched = <<>> => field \notin DOMAIN ret.record

RECURSIVE PipeJoined(_, _)
\* the first n texts with a "|" between each two
PipeJoined(texts, n) ==
    IF n = 0 THEN <<>>
    ELSE IF n = 1 THEN texts[1]
    ELSE PipeJoined(texts, n - 1) \o <<"|">> \o texts[n]

\* the normalized texts of the matched elements, in document order
MatchedTexts == [n \in 1..Len(Matched) |-> get_text(Matched[n])]

\* C9 as claimed: a rule '|col' never raises, and sets record['col'] to the
\* '|'-join of the normalized texts of all matched elements, which is the
\* empty string when zero elements match.
C9_JoinSetsColumnAlways ==
    (ScalarCall /\ startswith_pipe(args.rule.s))
    => LET col == SubSeq(args.rule.s, 2, Len(args.rule.s))
       IN /\ ret.exc = "none"
          /\ col \in DOMAIN ret.record
          /\ ret.record[col] = PipeJoined(MatchedTexts, Len(Matched))

\* C9 as amended: a rule '|col' never raises; when at least one element
\* matches it sets record['col'] to the '|'-join of the normalized texts of
\* all matched elements in document order and leaves every other column
\* alone; when zero elements match it leaves the record as it was ('col' is
\* not set).
C9_JoinOfMatchedTexts ==
    (ScalarCall /\ startswith_pipe(args.rule.s))
    => LET col == SubSeq(args.rule.s, 2, Len(args.rule.s))
       IN /\ ret.exc = "none"
          /\ ret.tables = args.tables
          /\ Matched # <<>> =>
               /\ DOMAIN ret.record = DOMAIN args.record \cup {col}
               /\ ret.record[col] = PipeJoined(MatchedTexts, Len(Matched))
               /\ \A k \in DOMAIN args.record \ {col} :
                    ret.record[k] = args.record[k]
          /\ Matched = <<>> => ret.record = args.record
          /\ (args.tree.node = Doc("good").root /\ args.path = <<"y">>)
               => ret.record[col] = <<"a", "|", "b", "|", "c">>

\* C9, its case: three elements matched and joined
C9_Witness ==
    /\ ScalarCall
    /\ args.rule.s = JOIN
    /\ Len(Matched) = 3
    /\ ret.record[<<"j">>] = <<"a", "|", "b", "|", "c">>

\* C10: for an entity rule that declares 'pk', every record appended for it
\* has the id of the normalized text of the single element the pk path
\* matches under the context node (also when that text is empty), never a
\* counter value; and if the pk path matches zero or several elements while
\* the rule matches at least one element, AssertionError is raised and no
\* record of the entity is appended.
C10_NaturalKey ==
    (EntityCall /\ args.rule.pk # <<>> /\ Matched # <<>>)
    => LET keys == findall(args.tree.node, args.rule.pk)
           rows == NewRows(args.rule.entity)
       IN /\ Len(keys) # 1 => ret.exc = "AssertionError" /\ rows = <<>>
          /\ Len(keys) = 1 =>
               \A n \in 1..Len(rows) : rows[n][ID] = get_text(keys[1])

====
